---- MODULE Spec2Model ----
(***************************************************************************)
(* Model of pyintuition.Intuition: the in-memory message cache             *)
(* (domain_cache) in front of the per-(domain, language) message files,    *)
(* which are refreshed from the Intuition API when missing or expired.     *)
(***************************************************************************)
EXTENDS Integers, Sequences, FiniteSets, TLC

\* ---------------------------------------------------------------- bounds
MaxTime == 2
MaxCalls == 2
MaxSlotCalls == 4
MaxDomainCalls == 2
MaxPathCalls == 2
MaxWriteCalls == 1

\* cache_time, in clock units (the default is one hour)
CacheTime == 1

\* ------------------------------------------------------------ value sets
None == "None"

Domains == {"d1", "d2"}
Languages == {"en", "de"}
Keys == {"k"}

\* The arguments the calls are made with; None is an omitted argument.
DomainArgs == Domains \cup {None}
LanguageArgs == {None, "de"}

\* Two (domain, language) pairs whose names contain an underscore, the
\* character that separates domain and language in the file name.
PathSlots == {<<"a", "b_c">>, <<"a_b", "c">>}

\* Every (domain, language) pair the calls are about.
Slots == (Domains \X Languages) \cup PathSlots

\* The constructor's arguments and the language cookie of the environment.
DefaultDomains == {None, "d1"}
DefaultLanguages == {"en"}
Cookies == {None, "en"}

NoMessages == [x \in {} |-> ""]
MsgKV == [x \in {"k"} |-> "v"]
MsgKW == [x \in {"k"} |-> "w"]
MsgJ == [x \in {"j"} |-> "v"]

\* A parsed JSON document: the top-level fields it has, the value of
\* "error" and the value of "messages" (a mapping domain -> message set).
Doc(fields, error, messages) ==
    [fields |-> fields, error |-> error, messages |-> messages]

\* No document at all: what an empty or truncated file holds.
NoDoc == Doc({}, "", [x \in {} |-> NoMessages])

\* The documents the API may answer a request for `domain` with.
Documents(domain) ==
    { Doc({"messages"}, "", (domain :> MsgKV)),
      Doc({"messages"}, "", (domain :> MsgKW)),
      Doc({"messages"}, "", (domain :> MsgJ)),
      Doc({"messages"}, "", (domain :> NoMessages)),
      Doc({"messages"}, "", [x \in {} |-> NoMessages]),
      Doc({"error"}, "boom", [x \in {} |-> NoMessages]),
      Doc({"error", "messages"}, "boom", (domain :> MsgKV)) }

\* urllib2.urlopen either raises (URLError) or yields a response, and
\* reading the body of the response either fails (CutResponse: the
\* connection breaks in result.read()) or yields the body.
UrlError == [status |-> "fail", body |-> NoDoc]
CutResponse == [status |-> "cut", body |-> NoDoc]
NoResponse == [status |-> "none", body |-> NoDoc]
Responses(domain) ==
    {UrlError, CutResponse}
        \cup {[status |-> "ok", body |-> d] : d \in Documents(domain)}

\* ---------------------------------------------------------------- state
VARIABLES
    now,                \* datetime.datetime.now()
    default_domain,     \* self.default_domain
    language,           \* self.language
    update_on_missing,  \* self.update_on_missing
    domain_cache,       \* self.domain_cache: <<domain, language>> -> entry
    files,              \* the translation directory: path -> file
    calls,              \* number of calls made so far
    last,               \* the most recent call and what it did
    writer              \* a second caller's refresh of a file, step by step

vars == <<now, default_domain, language, update_on_missing,
          domain_cache, files, calls, last, writer>>

\* ------------------------------------------------------- results of calls
Return(value, messages) ==
    [ok |-> TRUE, exc |-> "", msg |-> "", value |-> value, messages |-> messages]

Raise(exc, msg) ==
    [ok |-> FALSE, exc |-> exc, msg |-> msg, value |-> "", messages |-> NoMessages]

\* -------------------------------------------------------------- helpers
init_language(cookie, default_language) ==
    IF cookie # None THEN cookie ELSE default_language

\* is_outdated with the boundary on the other side.
is_outdated_inclusive(timestamp, t) ==
    LET expiry_time == t - CacheTime
    IN  expiry_time >= timestamp

is_outdated(timestamp, t) ==
    LET expiry_time == t - CacheTime
    IN  expiry_time > timestamp

\* is_file_outdated with a boundary of its own: a file exactly cache_time
\* old counts as outdated.
is_file_outdated_early(fs, domain_path, t) ==
    t - fs[domain_path].mtime >= CacheTime

is_file_outdated(fs, domain_path, t) ==
    is_outdated(fs[domain_path].mtime, t)

\* is_cache_outdated that lets an entry live one tick longer.
is_cache_outdated_lenient(cache, domain, lang, t) ==
    is_outdated(cache[<<domain, lang>>].update + 1, t)

is_cache_outdated(cache, domain, lang, t) ==
    is_outdated(cache[<<domain, lang>>].update, t)

DomainPath(domain, lang) ==
    domain \o "_" \o lang \o ".json"

\* The condition of the download branch of read_domain.
NeedsDownload(fs, domain, lang, force_download, t) ==
    LET domain_path == DomainPath(domain, lang)
    IN  \/ force_download
        \/ domain_path \notin DOMAIN fs
        \/ is_file_outdated(fs, domain_path, t)

\* The parse with the messages looked at before the error field.
ParseMessagesFirst(json_result, domain) ==
    IF /\ "messages" \in json_result.fields
       /\ domain \in DOMAIN json_result.messages
       /\ DOMAIN json_result.messages[domain] # {}
    THEN Return("", json_result.messages[domain])
    ELSE IF "error" \in json_result.fields
         THEN Raise("Exception", json_result.error)
         ELSE Raise("ValueError", "Illegal domain given: " \o domain)

\* json.load and the checks that follow it.
ParseMessages(json_result, domain) ==
    IF json_result = NoDoc
    THEN Raise("ValueError", "No JSON object could be decoded")
    ELSE IF "error" \in json_result.fields
    THEN Raise("Exception", json_result.error)
    ELSE IF "messages" \notin json_result.fields
         THEN Raise("KeyError", "messages")
    ELSE IF domain \notin DOMAIN json_result.messages
         THEN Raise("KeyError", domain)
         ELSE LET messages == json_result.messages[domain]
              IN  IF DOMAIN messages = {}
                  THEN Raise("ValueError", "Illegal domain given: " \o domain)
                  ELSE Return("", messages)

\* The file read and parsed at the end of read_domain.
ReadFile(fs, domain_path, domain, io) ==
    [files |-> fs, io |-> io \o <<"read">>,
     result |-> ParseMessages(fs[domain_path].content, domain)]

\* read_domain that parses the fetched body before it writes it, and leaves
\* the file alone when the body is rejected.
read_domain_validating(fs, domain, lang, force_download, resp, t) ==
    IF ~NeedsDownload(fs, domain, lang, force_download, t)
    THEN ReadFile(fs, DomainPath(domain, lang), domain, <<>>)
    ELSE IF resp.status = "fail"
         THEN [files |-> fs, io |-> <<"fetch">>,
               result |-> Raise("URLError", "")]
         ELSE IF resp.status = "cut"
         THEN [files |-> (DomainPath(domain, lang) :>
                             [content |-> NoDoc, mtime |-> t]) @@ fs,
               io |-> <<"fetch", "truncate">>,
               result |-> Raise("IncompleteRead", "")]
         ELSE IF ~ParseMessages(resp.body, domain).ok
         THEN [files |-> fs, io |-> <<"fetch">>,
               result |-> ParseMessages(resp.body, domain)]
         ELSE ReadFile((DomainPath(domain, lang) :>
                           [content |-> resp.body, mtime |-> t]) @@ fs,
                       DomainPath(domain, lang), domain, <<"fetch", "write">>)

\* read_domain with a second urlopen after a failed one.
read_domain_retry(fs, domain, lang, force_download, resp, t) ==
    IF ~NeedsDownload(fs, domain, lang, force_download, t)
    THEN ReadFile(fs, DomainPath(domain, lang), domain, <<>>)
    ELSE IF resp.status = "fail"
         THEN [files |-> fs, io |-> <<"fetch", "fetch">>,
               result |-> Raise("URLError", "")]
         ELSE IF resp.status = "cut"
         THEN [files |-> (DomainPath(domain, lang) :>
                             [content |-> NoDoc, mtime |-> t]) @@ fs,
               io |-> <<"fetch", "truncate">>,
               result |-> Raise("IncompleteRead", "")]
         ELSE ReadFile((DomainPath(domain, lang) :>
                           [content |-> resp.body, mtime |-> t]) @@ fs,
                       DomainPath(domain, lang), domain, <<"fetch", "write">>)

\* read_domain on the file system fs at time t; resp is what urlopen and
\* result.read() do if they are called.  The file is opened for writing,
\* which empties it, before the body is read.  Yields the new file system,
\* the I/O performed and the result.
read_domain(fs, domain, lang, force_download, resp, t) ==
    IF ~NeedsDownload(fs, domain, lang, force_download, t)
    THEN ReadFile(fs, DomainPath(domain, lang), domain, <<>>)
    ELSE IF resp.status = "fail"
         THEN [files |-> fs, io |-> <<"fetch">>,
               result |-> Raise("URLError", "")]
         ELSE IF resp.status = "cut"
         THEN [files |-> (DomainPath(domain, lang) :>
                             [content |-> NoDoc, mtime |-> t]) @@ fs,
               io |-> <<"fetch", "truncate">>,
               result |-> Raise("IncompleteRead", "")]
         ELSE ReadFile((DomainPath(domain, lang) :>
                           [content |-> resp.body, mtime |-> t]) @@ fs,
                       DomainPath(domain, lang), domain, <<"fetch", "write">>)

\* The read_domain branch taken on a cache miss only.
NeedsReadOnMiss(cache, domain, lang, force_download, t) ==
    ~( /\ <<domain, lang>> \in DOMAIN cache
       /\ ~is_cache_outdated(cache, domain, lang, t) )

\* Whether get_domain takes the read_domain branch.
NeedsRead(cache, domain, lang, force_download, t) ==
    LET domain_present ==
            /\ <<domain, lang>> \in DOMAIN cache
            /\ ~is_cache_outdated(cache, domain, lang, t)
    IN  ~domain_present \/ force_download

\* The language get_domain works with.
ResolveLanguage(self_language, lang_arg) ==
    IF lang_arg = None THEN self_language ELSE lang_arg

\* The store that patches the entry: keys of the previous messages that the
\* new ones lack are kept.
StoreMessagesMerged(cache, domain, lang, r, t) ==
    [cache |-> IF r.result.ok
               THEN (<<domain, lang>> :>
                        [messages |->
                            IF <<domain, lang>> \in DOMAIN cache
                            THEN r.result.messages @@ cache[<<domain, lang>>].messages
                            ELSE r.result.messages,
                         update |-> t]) @@ cache
               ELSE cache,
     files |-> r.files, io |-> r.io, result |-> r.result]

\* The end of the read_domain branch of get_domain: r is what read_domain
\* yielded; its messages are stored, stamped with the time, unless it raised.
StoreMessages(cache, domain, lang, r, t) ==
    [cache |-> IF r.result.ok
               THEN (<<domain, lang>> :>
                        [messages |-> r.result.messages, update |-> t]) @@ cache
               ELSE cache,
     files |-> r.files, io |-> r.io, result |-> r.result]

\* get_domain on the world w = [cache, files] at time t.
get_domain(w, self_language, domain, lang_arg, force_download, resp, t) ==
    IF NeedsRead(w.cache, domain, ResolveLanguage(self_language, lang_arg),
                 force_download, t)
    THEN StoreMessages(w.cache, domain, ResolveLanguage(self_language, lang_arg),
                       read_domain(w.files, domain,
                                   ResolveLanguage(self_language, lang_arg),
                                   force_download, resp, t),
                       t)
    ELSE [cache |-> w.cache, files |-> w.files, io |-> <<>>,
          result |-> Return("",
              w.cache[<<domain, ResolveLanguage(self_language, lang_arg)>>].messages)]

\* Whether get_domain(domain, lang_arg, force_download) calls urlopen.
WillFetch(w, self_language, domain, lang_arg, force_download, t) ==
    /\ NeedsRead(w.cache, domain, ResolveLanguage(self_language, lang_arg),
                 force_download, t)
    /\ NeedsDownload(w.files, domain, ResolveLanguage(self_language, lang_arg),
                     force_download, t)

Fetches(io) == Len(SelectSeq(io, LAMBDA e : e = "fetch"))

\* ------------------------------------------------------------------ get
\* The domain resolved to some domain when there is none.
ResolveDomainFallback(self_domain, domain_arg) ==
    IF domain_arg # None THEN domain_arg
    ELSE IF self_domain # None THEN self_domain ELSE "d1"

\* The domain get looks up: the argument, else the default domain.
ResolveDomain(self_domain, domain_arg) ==
    IF domain_arg = None THEN self_domain ELSE domain_arg

NotCalled == [cache |-> <<>>, files |-> <<>>, io |-> <<>>,
              result |-> Raise("NotCalled", "")]

\* The first lookup of get: get_domain(domain), without the language;
\* no lookup, and the failure, when there is no domain.
GetLookup(w, self_language, domain, resp, t) ==
    IF domain = None
    THEN [cache |-> w.cache, files |-> w.files, io |-> <<>>,
          result |-> Raise("ValueError", "No domain given!")]
    ELSE get_domain(w, self_language, domain, None, FALSE, resp, t)

\* The reload made whatever update_on_missing is.
NeedsReloadAlways(messages, key, uom) ==
    key \notin DOMAIN messages

\* Whether get reloads the messages after the first lookup.
NeedsReload(messages, key, uom) ==
    key \notin DOMAIN messages /\ uom

\* Whether get, after the first lookup yielded r1, goes on to reload.
Reloads(r1, key, uom) ==
    r1.result.ok /\ NeedsReload(r1.result.messages, key, uom)

\* The reload of get after the first lookup yielded r1, if it is made.
GetReload(r1, self_language, uom, key, domain, lang_arg, resp, t) ==
    IF Reloads(r1, key, uom)
    THEN get_domain([cache |-> r1.cache, files |-> r1.files],
                    self_language, domain, lang_arg, TRUE, resp, t)
    ELSE [NotCalled EXCEPT !.cache = r1.cache, !.files = r1.files]

\* The end of get: r1 and r2 are what the first lookup and the reload yielded.
GetResult(r1, r2, domain, key) ==
    [cache |-> r2.cache, files |-> r2.files, io1 |-> r1.io, io2 |-> r2.io,
     first |-> IF domain = None THEN NotCalled.result ELSE r1.result,
     second |-> r2.result,
     result |->
        IF ~r1.result.ok THEN r1.result
        ELSE IF r2.result.exc = "NotCalled"
             THEN IF key \in DOMAIN r1.result.messages
                  THEN Return(r1.result.messages[key], NoMessages)
                  ELSE Raise("ValueError", "No message for that key!")
             ELSE IF ~r2.result.ok THEN r2.result
                  ELSE IF key \in DOMAIN r2.result.messages
                       THEN Return(r2.result.messages[key], NoMessages)
                       ELSE Raise("ValueError", "No message for that key!")]

\* get from its first lookup on: r1 is what the lookup yielded.
GetAfterLookup(r1, self_language, uom, key, domain, lang_arg, resp2, t) ==
    GetResult(r1,
              GetReload(r1, self_language, uom, key, domain, lang_arg, resp2, t),
              domain, key)

\* get on the world w = [cache, files] at time t; resp1 and resp2 are what
\* urlopen does in the first lookup and in the reload, if it is called.
get(w, self_domain, self_language, uom, key, domain_arg, lang_arg, resp1, resp2, t) ==
    GetAfterLookup(GetLookup(w, self_language,
                             ResolveDomain(self_domain, domain_arg), resp1, t),
                   self_language, uom, key,
                   ResolveDomain(self_domain, domain_arg), lang_arg, resp2, t)

\* ----------------------------------------------------------------- Init
\* What is recorded of a call: the arguments, the time, the state the slot
\* of its (first) lookup was in, the I/O of the lookup (io1) and of the
\* reload of get (io2), what the network delivered to each fetch (fetched),
\* the results of the two get_domain calls of get, and the result of the
\* call.
Call(op, key, domain, lang_arg, force, t, mem, file, io1, io2, fetched, first, second, result) ==
    [op |-> op, key |-> key, domain |-> domain, language |-> lang_arg,
     force |-> force, at |-> t, mem |-> mem, file |-> file,
     io1 |-> io1, io2 |-> io2, fetched |-> fetched,
     first |-> first, second |-> second, result |-> result]

NoCall == Call("init", None, None, None, FALSE, 0, "none", "none", <<>>, <<>>,
               <<>>, NotCalled.result, NotCalled.result, Return("", NoMessages))

\* What the network delivered to a lookup whose I/O was io, if it asked.
Fetched(io, resp) == IF Fetches(io) = 0 THEN <<>> ELSE <<resp>>

\* The age class of a timestamp at time t.
Age(timestamp, t) ==
    IF t - timestamp <= CacheTime THEN "fresh" ELSE "stale"

MemState(cache, domain, lang, t) ==
    IF <<domain, lang>> \in DOMAIN cache
    THEN Age(cache[<<domain, lang>>].update, t) ELSE "absent"

FileState(fs, domain, lang, t) ==
    IF DomainPath(domain, lang) \in DOMAIN fs
    THEN Age(fs[DomainPath(domain, lang)].mtime, t) ELSE "absent"

\* A second caller (another process over the same translation directory)
\* in the download branch of read_domain: where it is (pc), the file it
\* writes, the body it fetched and what the file held before.
Writer(pc, path, body, old) ==
    [pc |-> pc, path |-> path, body |-> body, old |-> old]

Idle == Writer("idle", "", NoDoc, NoDoc)

EmptyCache == [p \in {} |-> [messages |-> NoMessages, update |-> 0]]
EmptyDirectory == [p \in {} |-> [content |-> NoDoc, mtime |-> 0]]

Init ==
    /\ now = 0
    /\ default_domain \in DefaultDomains
    /\ \E cookie \in Cookies, default_language \in DefaultLanguages :
          language = init_language(cookie, default_language)
    /\ update_on_missing \in BOOLEAN
    /\ domain_cache = EmptyCache
    /\ files = EmptyDirectory
    /\ calls = 0
    /\ last = NoCall
    /\ writer = Idle

\* -------------------------------------------------------------- actions
\* Time passes.
Tick ==
    /\ now < MaxTime
    /\ now' = now + 1
    /\ UNCHANGED <<default_domain, language, update_on_missing,
                   domain_cache, files, calls, last, writer>>

\* The process ends and a new one constructs the instance again, with the
\* same arguments, over the same translation directory.
NewInstance ==
    /\ DOMAIN domain_cache # {}
    /\ domain_cache' = EmptyCache
    /\ last' = NoCall
    /\ UNCHANGED <<now, default_domain, language, update_on_missing, files,
                   calls, writer>>

\* The effect of a call that yielded r, recorded as c.
Effect(r, c) ==
    /\ domain_cache' = r.cache
    /\ files' = r.files
    /\ last' = c
    /\ calls' = calls + 1
    /\ UNCHANGED <<now, default_domain, language, update_on_missing, writer>>

\* The record of a get_domain call that yielded r.
GetDomainCall(domain, lang_arg, force_download, resp, r) ==
    Call("get_domain", None, domain, lang_arg, force_download, now,
         MemState(domain_cache, domain, ResolveLanguage(language, lang_arg), now),
         FileState(files, domain, ResolveLanguage(language, lang_arg), now),
         r.io, <<>>, Fetched(r.io, resp),
         NotCalled.result, NotCalled.result, r.result)

\* The record of a get call that yielded r.
GetCall(key, domain_arg, lang_arg, domain, resp1, resp2, r) ==
    Call("get", key, domain_arg, lang_arg, FALSE, now,
         IF domain = None THEN "none"
         ELSE MemState(domain_cache, domain, language, now),
         IF domain = None THEN "none"
         ELSE FileState(files, domain, language, now),
         r.io1, r.io2, Fetched(r.io1, resp1) \o Fetched(r.io2, resp2),
         r.first, r.second, r.result)

\* What a get_domain call yielded, made the effect of the step.
GetDomainDone(domain, lang_arg, force_download, resp, r) ==
    Effect(r, GetDomainCall(domain, lang_arg, force_download, resp, r))

\* A call of get_domain(domain, lang_arg, force_download).
GetDomain(domain, lang_arg, force_download) ==
    \E resp \in IF WillFetch([cache |-> domain_cache, files |-> files], language,
                             domain, lang_arg, force_download, now)
                THEN Responses(domain) ELSE {NoResponse} :
        GetDomainDone(domain, lang_arg, force_download, resp,
                      get_domain([cache |-> domain_cache, files |-> files], language,
                                 domain, lang_arg, force_download, resp, now))

\* What a get call yielded, made the effect of the step.
GetDone(key, domain_arg, lang_arg, domain, resp1, resp2, r) ==
    Effect(r, GetCall(key, domain_arg, lang_arg, domain, resp1, resp2, r))

\* A get call from its first lookup on: r1 is what the lookup yielded.
GetContinue(key, domain_arg, lang_arg, domain, resp1, r1) ==
    \E resp2 \in IF Reloads(r1, key, update_on_missing)
                 THEN Responses(domain) ELSE {NoResponse} :
        GetDone(key, domain_arg, lang_arg, domain, resp1, resp2,
                GetAfterLookup(r1, language, update_on_missing, key, domain,
                               lang_arg, resp2, now))

\* A call of get(key, domain_arg, lang_arg).
Get(key, domain_arg, lang_arg) ==
    \E resp1 \in IF /\ ResolveDomain(default_domain, domain_arg) # None
                    /\ WillFetch([cache |-> domain_cache, files |-> files], language,
                                 ResolveDomain(default_domain, domain_arg),
                                 None, FALSE, now)
                 THEN Responses(ResolveDomain(default_domain, domain_arg))
                 ELSE {NoResponse} :
        GetContinue(key, domain_arg, lang_arg,
                    ResolveDomain(default_domain, domain_arg), resp1,
                    GetLookup([cache |-> domain_cache, files |-> files], language,
                              ResolveDomain(default_domain, domain_arg), resp1, now))

\* The second caller's read_domain(domain, lang, force_download) enters the
\* download branch: urlopen yields a response and the file is opened for
\* writing, which creates it or empties it.
WriterOpen(domain, lang, force_download) ==
    /\ writer.pc = "idle"
    /\ NeedsDownload(files, domain, lang, force_download, now) = TRUE
    /\ \E body \in Documents(domain) :
          writer' = Writer("opened", DomainPath(domain, lang), body,
                           IF DomainPath(domain, lang) \in DOMAIN files
                           THEN files[DomainPath(domain, lang)].content
                           ELSE NoDoc)
    /\ files' = (DomainPath(domain, lang) :> [content |-> NoDoc, mtime |-> now])
                    @@ files
    /\ UNCHANGED <<now, default_domain, language, update_on_missing,
                   domain_cache, calls, last>>

\* The second caller writes the body it read: the data is in the buffer of
\* the file object and has reached the file, or has not yet.
WriterWrite ==
    /\ writer.pc = "opened"
    /\ writer' = [writer EXCEPT !.pc = "written"]
    /\ \E content \in {files[writer.path].content, writer.body} :
          files' = (writer.path :> [content |-> content, mtime |-> now]) @@ files
    /\ UNCHANGED <<now, default_domain, language, update_on_missing,
                   domain_cache, calls, last>>

\* Reading the body fails in the second caller: its call ends and the file
\* stays as the open left it.
WriterCut ==
    /\ writer.pc = "opened"
    /\ writer' = Idle
    /\ UNCHANGED <<now, default_domain, language, update_on_missing,
                   domain_cache, files, calls, last>>

\* The second caller closes the file: the body is in the file.
WriterClose ==
    /\ writer.pc = "written"
    /\ writer' = Idle
    /\ files' = (writer.path :> [content |-> writer.body, mtime |-> now]) @@ files
    /\ UNCHANGED <<now, default_domain, language, update_on_missing,
                   domain_cache, calls, last>>

\* ------------------------------------------------------- specifications
\* Every operation, on every slot.
Next ==
    \/ Tick
    \/ NewInstance
    \/ \E d \in Domains, l \in LanguageArgs, f \in BOOLEAN :
          calls < MaxCalls /\ GetDomain(d, l, f)
    \/ \E k \in Keys, d \in DomainArgs, l \in LanguageArgs :
          calls < MaxCalls /\ Get(k, d, l)

Spec == Init /\ [][Next]_vars

\* A longer history of one slot: get_domain("d1") with the default language.
SlotNext ==
    \/ Tick
    \/ NewInstance
    \/ \E f \in BOOLEAN :
          calls < MaxSlotCalls /\ GetDomain("d1", None, f)

SpecSlot == Init /\ [][SlotNext]_vars

\* A longer history of one domain: get_domain("d1") with the default
\* language, and get for "d1", named or by default, in either language.
DomainNext ==
    \/ Tick
    \/ NewInstance
    \/ \E f \in BOOLEAN :
          calls < MaxDomainCalls /\ GetDomain("d1", None, f)
    \/ \E k \in Keys, d \in {None, "d1"}, l \in LanguageArgs :
          calls < MaxDomainCalls /\ Get(k, d, l)

SpecDomain == Init /\ [][DomainNext]_vars

\* Two slots whose names contain the separator of the file name:
\* get_domain("a", "b_c") and get_domain("a_b", "c").
PathNext ==
    \/ Tick
    \/ NewInstance
    \/ \E slot \in PathSlots, f \in BOOLEAN :
          calls < MaxPathCalls /\ GetDomain(slot[1], slot[2], f)

SpecPaths == Init /\ [][PathNext]_vars

\* Two callers on one file: get_domain("d1") with the default language,
\* interleaved with the steps of a second caller's refresh of the same file.
WriteNext ==
    \/ Tick
    \/ NewInstance
    \/ \E f \in BOOLEAN :
          calls < MaxWriteCalls /\ GetDomain("d1", None, f)
    \/ \E f \in BOOLEAN : WriterOpen("d1", language, f)
    \/ WriterWrite
    \/ WriterCut
    \/ WriterClose

SpecWrite == Init /\ [][WriteNext]_vars

\* ---------------------------------------------------------- observations
\* A step that is a call (of get_domain or get).
IsCall == calls' = calls + 1

\* The ways a call ends when the network fails: urlopen raises, or reading
\* the body of the response does.
NetworkFailures == {Raise("URLError", ""), Raise("IncompleteRead", "")}

\* The slot a call is about: its domain and the language it names, the
\* instance's language when it names none.
CallLanguage(c) == IF c.language = None THEN language ELSE c.language
CallDomain(c) == ResolveDomain(default_domain, c.domain)
CallSlot(c) == <<CallDomain(c), CallLanguage(c)>>
CallPath(c) == DomainPath(CallDomain(c), CallLanguage(c))

\* The network fetches, file reads and file writes of a call.
CallIO(c) == c.io1 \o c.io2

Events(io) == {io[i] : i \in 1..Len(io)}

\* The document a call read from its file.
CallDoc(c, fs) == fs[CallPath(c)].content

\* ---------------------------------------------------------------- claims

\* C1: a get_domain call without force_download for a slot whose in-memory
\* entry was stamped at most cache_time ago performs no network fetch and
\* no file read or write, returns the cached messages and changes nothing.
C1_FreshEntryNoIO ==
    [][ ( /\ IsCall
          /\ last'.op = "get_domain"
          /\ ~last'.force
          /\ CallSlot(last') \in DOMAIN domain_cache
          /\ now - domain_cache[CallSlot(last')].update <= CacheTime )
        => ( /\ CallIO(last') = <<>>
             /\ last'.result = Return("", domain_cache[CallSlot(last')].messages)
             /\ domain_cache' = domain_cache
             /\ files' = files ) ]_vars

\* A call answered from an entry that is exactly cache_time old.
C1_Witness ==
    /\ last.op = "get_domain"
    /\ ~last.force
    /\ last.mem = "fresh"
    /\ CallIO(last) = <<>>
    /\ last.result.ok
    /\ last.at = domain_cache[CallSlot(last)].update + CacheTime

\* C2: a get_domain call for a slot whose in-memory entry is older than
\* cache_time performs exactly one network fetch.
C2_StaleEntryOneFetch ==
    [][ ( /\ IsCall
          /\ last'.op = "get_domain"
          /\ CallSlot(last') \in DOMAIN domain_cache
          /\ now - domain_cache[CallSlot(last')].update > CacheTime )
        => Fetches(CallIO(last')) = 1 ]_vars

\* C3: a get_domain call with force_download performs a network fetch,
\* whatever the state of the in-memory entry and of the file.
C3_ForceAlwaysFetches ==
    (last.op = "get_domain" /\ last.force)
        => (Fetches(CallIO(last)) = 1 /\ CallIO(last)[1] = "fetch")

\* A forced call made while the entry and the file were both fresh.
C3_Witness ==
    /\ last.op = "get_domain"
    /\ last.force
    /\ last.mem = "fresh"
    /\ last.file = "fresh"
    /\ Fetches(CallIO(last)) = 1

\* C4: get returns the value of the key in the message set of the slot of
\* the resolved domain and of the language passed, the instance's language
\* only when none is passed.
C4_ExplicitArgumentsWin ==
    (last.op = "get" /\ last.result.ok)
        => /\ CallSlot(last) \in DOMAIN domain_cache
           /\ last.key \in DOMAIN domain_cache[CallSlot(last)].messages
           /\ last.result.value = domain_cache[CallSlot(last)].messages[last.key]

\* C5: when the key is absent from the message set get obtained, get
\* reloads exactly once (one forced fetch) if update_on_missing is set, and
\* then returns the message of the reloaded set or fails for the key; it
\* does not reload and fails for the key directly if it is not set.
C5_UpdateOnMissing ==
    (last.op = "get" /\ last.first.ok /\ last.key \notin DOMAIN last.first.messages)
        => IF update_on_missing
           THEN /\ last.second.exc # "NotCalled"
                /\ Fetches(last.io2) = 1
                /\ last.second.ok =>
                      last.result =
                        IF last.key \in DOMAIN last.second.messages
                        THEN Return(last.second.messages[last.key], NoMessages)
                        ELSE Raise("ValueError", "No message for that key!")
                /\ ~last.second.ok => last.result = last.second
           ELSE /\ last.second.exc = "NotCalled"
                /\ last.io2 = <<>>
                /\ last.result = Raise("ValueError", "No message for that key!")

\* A get that found the key only in the reloaded set.
C5_Witness ==
    /\ last.op = "get"
    /\ update_on_missing
    /\ last.first.ok
    /\ last.key \notin DOMAIN last.first.messages
    /\ last.second.ok
    /\ last.result.ok
    /\ last.result.value = last.second.messages[last.key]

\* C6: when the document get_domain read has an error field, the call
\* fails with that field's value, whether or not the document has messages,
\* and the in-memory cache is left as it was.
C6_ErrorFieldRaises ==
    [][ ( /\ IsCall
          /\ last'.op = "get_domain"
          /\ "read" \in Events(CallIO(last'))
          /\ "error" \in CallDoc(last', files').fields )
        => ( /\ last'.result = Raise("Exception", CallDoc(last', files').error)
             /\ domain_cache' = domain_cache ) ]_vars

\* A call that failed on a document with both an error and messages.
C6_Witness ==
    /\ last.op = "get_domain"
    /\ "read" \in Events(CallIO(last))
    /\ CallDoc(last, files).fields = {"error", "messages"}
    /\ last.result = Raise("Exception", "boom")

\* C7: when the document get_domain read has no error field and the
\* messages of the domain are absent or empty, the call fails with the
\* invalid-domain error in both cases and creates no in-memory entry.
C7_AbsentOrEmptyIsInvalidDomain ==
    [][ ( /\ IsCall
          /\ last'.op = "get_domain"
          /\ "read" \in Events(CallIO(last'))
          /\ CallDoc(last', files') # NoDoc
          /\ "error" \notin CallDoc(last', files').fields
          /\ \/ "messages" \notin CallDoc(last', files').fields
             \/ CallDomain(last') \notin DOMAIN CallDoc(last', files').messages
             \/ CallDoc(last', files').messages[CallDomain(last')] = NoMessages )
        => ( /\ last'.result =
                   Raise("ValueError", "Illegal domain given: " \o CallDomain(last'))
             /\ domain_cache' = domain_cache ) ]_vars

\* C8: a get repeated with the same arguments while every in-memory entry
\* is within cache_time returns what the first returned, performs no I/O
\* and leaves the cache and the files as they were.
C8_RepeatedGetNoEffect ==
    [][ ( /\ IsCall
          /\ last.op = "get"
          /\ last.result.ok
          /\ last'.op = "get"
          /\ last'.key = last.key
          /\ last'.domain = last.domain
          /\ last'.language = last.language
          /\ \A p \in DOMAIN domain_cache :
                now - domain_cache[p].update <= CacheTime )
        => ( /\ last'.result = last.result
             /\ CallIO(last') = <<>>
             /\ domain_cache' = domain_cache
             /\ files' = files ) ]_vars

\* C9: a get performs at most two network fetches and a bounded number of
\* I/O steps, and a fetch that fails is the last thing the call does: the
\* call ends with the network failure.
C9_NoAutomaticRetry ==
    last.op = "get"
        => LET io == CallIO(last)
           IN  /\ Fetches(io) <= 2
               /\ Fetches(last.io1) <= 1
               /\ Fetches(last.io2) <= 1
               /\ Len(io) <= 6
               /\ \A i \in 1..Len(io) :
                     (io[i] = "fetch" /\ (i = Len(io) \/ io[i + 1] # "write"))
                        => /\ \A j \in (i + 1)..Len(io) : io[j] = "truncate"
                           /\ last.result \in NetworkFailures
               /\ last.result \in NetworkFailures
                     => \E i \in 1..Len(io) :
                           /\ io[i] = "fetch"
                           /\ \A j \in (i + 1)..Len(io) : io[j] = "truncate"

\* A get whose first lookup fetched and whose reload failed in the network.
C9_Witness ==
    /\ last.op = "get"
    /\ Fetches(CallIO(last)) = 2
    /\ last.result = Raise("URLError", "")

\* C10: get without a domain on an instance without a default domain fails
\* for the missing domain, performs no I/O and leaves the cache and the
\* files as they were.
C10_NoDomainFailsFirst ==
    [][ ( /\ IsCall
          /\ last'.op = "get"
          /\ last'.domain = None
          /\ default_domain = None )
        => ( /\ last'.result = Raise("ValueError", "No domain given!")
             /\ CallIO(last') = <<>>
             /\ domain_cache' = domain_cache
             /\ files' = files ) ]_vars

\* Such a get made after the cache was filled.
C10_Witness ==
    /\ last.op = "get"
    /\ last.domain = None
    /\ default_domain = None
    /\ last.result = Raise("ValueError", "No domain given!")
    /\ DOMAIN domain_cache # {}

\* C11: for every slot with an in-memory entry, the messages of the entry
\* are those of the payload most recently written to the slot's file (the
\* entry is never older in content than the file).
C11_MemoryIsLastPayload ==
    \A slot \in DOMAIN domain_cache :
        /\ DomainPath(slot[1], slot[2]) \in DOMAIN files
        /\ ParseMessages(files[DomainPath(slot[1], slot[2])].content, slot[1])
               = Return("", domain_cache[slot].messages)

\* C12: read_domain, when get_domain invokes it, fetches from the network
\* iff force_download is set or the slot's file is absent or stale; and a
\* get_domain call without force_download on an instance with no in-memory
\* entry for the slot and a file that is not stale performs no fetch and
\* exactly one file read, after which the instance holds an in-memory entry
\* of the slot stamped with the time of the call.
C12_LoadFetchesIff ==
    last.op = "get_domain"
        => /\ (last.force \/ last.mem # "fresh")
                => ( Fetches(CallIO(last)) >= 1
                        <=> (last.force \/ last.file \in {"absent", "stale"}) )
           /\ (~last.force /\ last.mem = "absent" /\ last.file = "fresh")
                => /\ CallIO(last) = <<"read">>
                   /\ CallSlot(last) \in DOMAIN domain_cache
                   /\ domain_cache[CallSlot(last)].update = last.at

\* C13: both layers use one staleness rule with one boundary.  A get_domain
\* call without force_download is answered from memory, with no I/O, iff
\* the slot has an entry with now - loaded_at <= cache_time; and when it is
\* not, it fetches iff the file is absent or now - modified_time >
\* cache_time.  An age of exactly cache_time is not refreshed.
C13_SameStalenessRule ==
    [][ ( /\ IsCall
          /\ last'.op = "get_domain"
          /\ ~last'.force )
        => ( /\ CallIO(last') = <<>>
                  <=> ( /\ CallSlot(last') \in DOMAIN domain_cache
                        /\ now - domain_cache[CallSlot(last')].update <= CacheTime )
             /\ CallIO(last') # <<>>
                  => ( Fetches(CallIO(last')) = 0
                         <=> ( /\ CallPath(last') \in DOMAIN files
                               /\ ~(now - files[CallPath(last')].mtime > CacheTime) ) ) ) ]_vars

\* A call that found no entry in memory and a file exactly cache_time old,
\* and read the file without refreshing it.
C13_Witness ==
    /\ last.op = "get_domain"
    /\ ~last.force
    /\ last.mem = "absent"
    /\ CallIO(last) = <<"read">>
    /\ last.result.ok
    /\ last.at = files[CallPath(last)].mtime + CacheTime

\* C14: a message set is replaced as a whole.  After every get_domain call
\* that loaded the slot (it went through read_domain and returned), the
\* in-memory messages of the slot are exactly the set parsed from the
\* slot's file, with nothing kept of the previous set, and the entry is
\* stamped with the time of the call; and when the call fetched, the file
\* holds exactly the payload the fetch delivered.
C14_WholesaleReplacement ==
    [][ ( /\ IsCall
          /\ last'.op = "get_domain"
          /\ last'.result.ok
          /\ CallIO(last') # <<>> )
        => ( /\ CallSlot(last') \in DOMAIN domain_cache'
             /\ domain_cache'[CallSlot(last')] =
                   [messages |-> CallDoc(last', files').messages[CallDomain(last')],
                    update |-> now]
             /\ Fetches(CallIO(last')) > 0
                  => /\ Len(last'.fetched) = 1
                     /\ CallPath(last') \in DOMAIN files'
                     /\ files'[CallPath(last')] =
                           [content |-> last'.fetched[1].body, mtime |-> now] ) ]_vars

\* A refresh of a stale entry whose new payload has the key j only.
C14_Witness ==
    /\ last.op = "get_domain"
    /\ last.mem = "stale"
    /\ last.result.ok
    /\ Fetches(CallIO(last)) = 1
    /\ domain_cache[CallSlot(last)].messages = MsgJ
    /\ files[CallPath(last)].content = last.fetched[1].body

\* C16: whenever get_domain returns, the messages it returns are those of
\* the slot's in-memory entry and that entry is fresh at the time of the
\* call (now - loaded_at <= cache_time); when the entry was stale before the
\* call, the entry returned from is the one loaded in the call, and the call
\* fails, returning no messages, when that load fails.
C16_ReturnsFreshEntryOnly ==
    last.op = "get_domain"
        => /\ last.result.ok
                => /\ CallSlot(last) \in DOMAIN domain_cache
                   /\ last.result.messages = domain_cache[CallSlot(last)].messages
                   /\ last.at - domain_cache[CallSlot(last)].update <= CacheTime
           /\ last.mem = "stale"
                => /\ last.result.ok <=> domain_cache[CallSlot(last)].update = last.at
                   /\ ~last.result.ok => last.result.messages = NoMessages

\* A call that found a stale entry, failed to refresh it and failed, the
\* stale entry staying in memory.
C16_Witness ==
    /\ last.op = "get_domain"
    /\ last.mem = "stale"
    /\ ~last.result.ok
    /\ Fetches(CallIO(last)) = 1
    /\ CallSlot(last) \in DOMAIN domain_cache
    /\ domain_cache[CallSlot(last)].messages # NoMessages

\* C17: a get_domain call that ends in a network failure changes nothing:
\* the files (content, modification time, absence) and every in-memory
\* entry are as they were before the call.
C17_NetworkFailureChangesNothing ==
    [][ ( /\ IsCall
          /\ last'.op = "get_domain"
          /\ last'.result \in NetworkFailures )
        => ( /\ files' = files
             /\ domain_cache' = domain_cache ) ]_vars

\* C18: the fetched payload is written before it is parsed.  A get_domain
\* call whose fetch delivered a payload that is rejected leaves that payload
\* in the slot's file, with the time of the call as modification time, leaves
\* every in-memory entry unchanged and fails with the error of the payload;
\* and a later get_domain call without force_download that loads the slot
\* while that file is within cache_time performs no network fetch, only
\* reads the file, and fails with the same error.
C18_RejectedPayloadPersists ==
    [][ ( /\ IsCall
          /\ last'.op = "get_domain" )
        => ( /\ ( /\ Len(last'.fetched) = 1
                  /\ last'.fetched[1].status = "ok"
                  /\ ~ParseMessages(last'.fetched[1].body, CallDomain(last')).ok )
                => /\ CallPath(last') \in DOMAIN files'
                   /\ files'[CallPath(last')] =
                         [content |-> last'.fetched[1].body, mtime |-> now]
                   /\ domain_cache' = domain_cache
                   /\ last'.result =
                         ParseMessages(last'.fetched[1].body, CallDomain(last'))
             /\ ( /\ ~last'.force
                  /\ last'.mem # "fresh"
                  /\ CallPath(last') \in DOMAIN files
                  /\ now - files[CallPath(last')].mtime <= CacheTime
                  /\ ~ParseMessages(files[CallPath(last')].content,
                                    CallDomain(last')).ok )
                => /\ CallIO(last') = <<"read">>
                   /\ files' = files
                   /\ domain_cache' = domain_cache
                   /\ last'.result =
                         ParseMessages(files[CallPath(last')].content,
                                       CallDomain(last')) ) ]_vars

\* A call that found a stale entry in memory and, in the file, the rejected
\* payload of an earlier refresh, not yet older than cache_time, and failed
\* with its error without fetching.
C18_Witness ==
    /\ last.op = "get_domain"
    /\ ~last.force
    /\ last.mem = "stale"
    /\ last.file = "fresh"
    /\ CallIO(last) = <<"read">>
    /\ files[CallPath(last)].content # NoDoc
    /\ last.result = ParseMessages(files[CallPath(last)].content, CallDomain(last))
    /\ ~last.result.ok

\* C19: a get_domain call for one (domain, language) pair leaves the
\* in-memory entry and the file of every other pair as they were.
C19_SlotsIndependent ==
    [][ ( /\ IsCall
          /\ last'.op = "get_domain" )
        => \A slot \in Slots \ {CallSlot(last')} :
              /\ slot \in DOMAIN domain_cache' <=> slot \in DOMAIN domain_cache
              /\ slot \in DOMAIN domain_cache
                    => domain_cache'[slot] = domain_cache[slot]
              /\ DomainPath(slot[1], slot[2]) \in DOMAIN files'
                    <=> DomainPath(slot[1], slot[2]) \in DOMAIN files
              /\ DomainPath(slot[1], slot[2]) \in DOMAIN files
                    => files'[DomainPath(slot[1], slot[2])]
                          = files[DomainPath(slot[1], slot[2])] ]_vars

\* C15: a reader never sees a partial write.  A get_domain call that reads
\* the file while a second caller is refreshing it reads a complete
\* payload, the one the file held before the refresh or the new one, never
\* an empty or truncated file.
C15_NoPartialRead ==
    [][ ( /\ IsCall
          /\ last'.op = "get_domain"
          /\ CallIO(last') = <<"read">>
          /\ writer.pc # "idle"
          /\ writer.path = CallPath(last') )
        => ( /\ CallDoc(last', files') # NoDoc
             /\ CallDoc(last', files') \in {writer.old, writer.body} ) ]_vars

====
